---- MODULE Spec2Model ----
(***************************************************************************)
(* Model of src/app.py: the haul-truck trip ledger of the "БАРАКАЛИ" pit.  *)
(*                                                                         *)
(* The store is the SQLite file belaz.db (tables records, otvals,          *)
(* requests, jr_records); the session is st.session_state.                 *)
(*                                                                         *)
(* Representation                                                          *)
(*   - volumes are REAL in the code; every value the code can produce is   *)
(*     a multiple of 0.5, so they are kept exactly as integers in tenths   *)
(*     of a cubic metre (42.0 -> 420, 37.5 -> 375).  factor is kept in     *)
(*     tenths too (0.5 -> 5, 1.0 -> 10); lengths are tenths of a km.       *)
(*   - SQL NULL / Python None of a numeric value is the empty tuple <<>>,  *)
(*     a present value x is <<x>>; a None string is the string "None".     *)
(*   - time is counted in hours since the epoch; the "%Y-%m-%d %H:%M:%S"   *)
(*     text of ts is the hour count and the "%Y-%m-%d" text of day is the  *)
(*     hour count divided by 24 (the fixed-width texts order as the        *)
(*     numbers do).                                                        *)
(*   - the Cyrillic texts of the code are written in Latin letters, their  *)
(*     order kept ("МОФ-2" is "MOF-2", "130т" is "130t").                  *)
(*   - AUTOINCREMENT ids: SQLite guarantees a new id larger than every id  *)
(*     used before in the table and may skip values; the model hands out   *)
(*     the successor of the largest id used so far.                        *)
(***************************************************************************)
EXTENDS Integers, Sequences, FiniteSets, TLC

VARIABLES
    records,             \* table records, in id order
    otvals,              \* table otvals, in id order
    otval_seq,           \* largest id ever used in otvals (sqlite_sequence)
    requests,            \* table requests, in id order
    jr_records,          \* table jr_records, in id order
    utc_now,             \* datetime.utcnow(), in hours
    last,                \* the last call of an operation and what it returned
    selected_excavator,  \* st.session_state["selected_excavator"]
    selected_otval,      \* st.session_state["selected_otval"]
    mode,                \* st.session_state["mode"]
    is_admin,            \* st.session_state["is_admin"]
    arg_truck_id,        \* argument of a call of get_volume_by_truck_id
    classified,          \* what that call returned
    connections          \* connections made by get_connection and not closed

vars == <<records, otvals, otval_seq, requests, jr_records, utc_now, last,
          selected_excavator, selected_otval, mode, is_admin,
          arg_truck_id, classified, connections>>

store_vars == <<records, otvals, otval_seq, requests, jr_records>>
session_vars == <<selected_excavator, selected_otval, mode, is_admin>>
classify_vars == <<arg_truck_id, classified>>

----------------------------------------------------------------------------
(* Bounds *)

MaxRecords == 2      \* rows of records
MaxOtvalId == 7      \* ids handed out in otvals
MaxRows == 2         \* rows written through the page, all tables together
MaxHours == 20       \* last instant of the clock
MaxTruck == 210      \* largest truck id classified

\* truck ids given to get_volume_by_truck_id
TruckRange == (0 - 3)..MaxTruck

\* site names given to the catalog operations: a default one and a new one
OtvalNames == {"MOF-2", "Xoz. rabota 1"}

\* arguments given to insert_record: each of excavator, site and half-load
\* flag varies; truck 45 is of the 130т band, truck 150 lies in the gap between
\* the 220т and the 240т band
TripInputs ==
    {<<"1Y", "MOF-2", 45, FALSE>>, <<"1Y", "MOF-2", 45, TRUE>>,
     <<"2Y", "MOF-2", 45, FALSE>>, <<"1Y", "Xoz. rabota 1", 45, FALSE>>,
     <<"1Y", "MOF-2", 150, FALSE>>, <<"2Y", "Xoz. rabota 1", 150, TRUE>>}

\* lengths given to upsert_otval: NULL and 2.5 km
Lengths == {<<>>, <<25>>}

----------------------------------------------------------------------------
(* Constants of the program *)

ADMIN_CODE == "shjsh707"
OTVAL_JR == "__J_R__"
None == "None"
NULL == <<>>

\* the first two of the eighteen excavators
EXCAVATORS == <<"1Y", "2Y">>

default_otvals ==
    <<"Peregruz otval", "2Yo blizhniy otval", "2Yo dalniy otval",
      "A4 okislennyy otval", "MOF-2", "MOF-3">>

\* the strings of the model in the order of their UTF-8 bytes, which is the
\* order of SQLite's BINARY collation and of Python's str comparison
BinaryOrder ==
    <<"1Y", "2Y", "2Yo blizhniy otval", "2Yo dalniy otval",
      "A4 okislennyy otval", "MOF-2", "MOF-3", "Peregruz otval",
      "Xoz. rabota 1">>

Rank(s) == CHOOSE i \in 1..Len(BinaryOrder) : BinaryOrder[i] = s

Range(f) == {f[i] : i \in DOMAIN f}

RECURSIVE SumSeq(_)
SumSeq(s) == IF s = <<>> THEN 0 ELSE Head(s) + SumSeq(Tail(s))

----------------------------------------------------------------------------
(* Time *)

get_now_tashkent == utc_now + 5

strftime_ts(now) == now
strftime_day(now) == now \div 24

----------------------------------------------------------------------------
(* Classification *)

get_volume_by_truck_id_strict(truck_id) ==
    IF 0 <= truck_id /\ truck_id <= 99 THEN <<"130t", 420>>
    ELSE IF 100 <= truck_id /\ truck_id < 140 THEN <<"220t", 750>>
    ELSE IF 200 <= truck_id /\ truck_id <= 205 THEN <<"240t", 500>>
    ELSE <<"unknown", 0>>

get_volume_by_truck_id(truck_id) ==
    IF 0 <= truck_id /\ truck_id <= 99 THEN <<"130t", 420>>
    ELSE IF 100 <= truck_id /\ truck_id <= 140 THEN <<"220t", 750>>
    ELSE IF 200 <= truck_id /\ truck_id <= 205 THEN <<"240t", 500>>
    ELSE <<"unknown", 0>>

----------------------------------------------------------------------------
(* Store: trips *)

UnknownTruckError == "volume for this BelAZ is not defined (number out of range)"

\* the row insert_record makes of its arguments
trip_row_nofactor(excavator, otval, truck_id, is_half) ==
    LET cls == get_volume_by_truck_id(truck_id)
        now == get_now_tashkent
    IN  [id |-> Len(records) + 1,
         ts |-> strftime_ts(now),
         day |-> strftime_day(now),
         excavator |-> excavator,
         otval |-> otval,
         truck_id |-> truck_id,
         truck_class |-> cls[1],
         base_volume |-> cls[2],
         factor |-> IF is_half THEN 5 ELSE 10,
         volume |-> cls[2]]

trip_row(excavator, otval, truck_id, is_half) ==
    LET cls == get_volume_by_truck_id(truck_id)
        truck_class == cls[1]
        base_volume == cls[2]
        factor == IF is_half THEN 5 ELSE 10
        volume == (base_volume * factor) \div 10
        now == get_now_tashkent
    IN  [id |-> Len(records) + 1,
         ts |-> strftime_ts(now),
         day |-> strftime_day(now),
         excavator |-> excavator,
         otval |-> otval,
         truck_id |-> truck_id,
         truck_class |-> truck_class,
         base_volume |-> base_volume,
         factor |-> factor,
         volume |-> volume]

insert_record_nocheck(excavator, otval, truck_id, is_half) ==
    LET row == trip_row(excavator, otval, truck_id, is_half)
    IN  [rows |-> Append(records, row),
         ret |-> [volume |-> <<row.volume>>, error |-> NULL]]

insert_record_replace(excavator, otval, truck_id, is_half) ==
    LET row == trip_row(excavator, otval, truck_id, is_half)
    IN  IF row.base_volume = 0
        THEN [rows |-> records,
              ret |-> [volume |-> NULL, error |-> <<UnknownTruckError>>]]
        ELSE [rows |-> <<[row EXCEPT !.id = 1]>>,
              ret |-> [volume |-> <<row.volume>>, error |-> NULL]]

\* the rows of records after the call, and the pair the call returns
insert_record(excavator, otval, truck_id, is_half) ==
    LET row == trip_row(excavator, otval, truck_id, is_half)
    IN  IF row.base_volume = 0
        THEN [rows |-> records,
              ret |-> [volume |-> NULL, error |-> <<UnknownTruckError>>]]
        ELSE [rows |-> Append(records, row),
              ret |-> [volume |-> <<row.volume>>, error |-> NULL]]

get_daily_records(recs, day_str, excavator) ==
    SelectSeq(recs, LAMBDA r : r.day = day_str /\ r.excavator = excavator)

get_daily_details_all(recs, day_str) ==
    SelectSeq(recs, LAMBDA r : r.day = day_str)

----------------------------------------------------------------------------
(* Store: site catalog *)

HasName(cat, name) == \E i \in DOMAIN cat : cat[i].name = name

Names(cat) == {cat[i].name : i \in DOMAIN cat}

\* an upsert of the NULL length in place of INSERT OR IGNORE
RECURSIVE UpsertFrom(_, _, _)
UpsertFrom(k, cat, seq) ==
    IF k > Len(default_otvals) THEN [otvals |-> cat, seq |-> seq]
    ELSE IF HasName(cat, default_otvals[k])
         THEN UpsertFrom(k + 1,
                         [i \in DOMAIN cat |->
                            IF cat[i].name = default_otvals[k]
                            THEN [cat[i] EXCEPT !.length = NULL]
                            ELSE cat[i]],
                         seq)
         ELSE UpsertFrom(k + 1,
                         Append(cat, [id |-> seq + 1,
                                      name |-> default_otvals[k],
                                      length |-> NULL]),
                         seq + 1)

ensure_default_otvals_upsert(cat, seq) == UpsertFrom(1, cat, seq)

\* INSERT OR IGNORE of each default name with a NULL length: the catalog and
\* the largest id used, after the statements of the loop from the k-th on
RECURSIVE SeedFrom(_, _, _)
SeedFrom(k, cat, seq) ==
    IF k > Len(default_otvals) THEN [otvals |-> cat, seq |-> seq]
    ELSE IF HasName(cat, default_otvals[k])
         THEN SeedFrom(k + 1, cat, seq)
         ELSE SeedFrom(k + 1,
                       Append(cat, [id |-> seq + 1,
                                    name |-> default_otvals[k],
                                    length |-> NULL]),
                       seq + 1)

ensure_default_otvals(cat, seq) == SeedFrom(1, cat, seq)

get_otvals_table(cat) == cat

get_otval_length(cat, name) ==
    IF HasName(cat, name)
    THEN (CHOOSE e \in Range(cat) : e.name = name).length
    ELSE NULL

\* INSERT OR IGNORE in place of the upsert
upsert_otval_ignore(cat, seq, name, length) ==
    IF HasName(cat, name)
    THEN [otvals |-> cat, seq |-> seq]
    ELSE [otvals |-> Append(cat, [id |-> seq + 1, name |-> name,
                                  length |-> length]),
          seq |-> seq + 1]

\* INSERT ... ON CONFLICT(name) DO UPDATE SET length = excluded.length
upsert_otval(cat, seq, name, length) ==
    IF HasName(cat, name)
    THEN [otvals |-> [i \in DOMAIN cat |->
                        IF cat[i].name = name
                        THEN [cat[i] EXCEPT !.length = length]
                        ELSE cat[i]],
          seq |-> seq]
    ELSE [otvals |-> Append(cat, [id |-> seq + 1, name |-> name,
                                  length |-> length]),
          seq |-> seq + 1]

\* DELETE FROM otvals WHERE name = ?
delete_otval(cat, name) == SelectSeq(cat, LAMBDA e : e.name # name)

----------------------------------------------------------------------------
(* Store: requests and rail wagons *)

insert_request(excavator, text) ==
    Append(requests, [id |-> Len(requests) + 1,
                      ts |-> strftime_ts(get_now_tashkent),
                      day |-> strftime_day(get_now_tashkent),
                      excavator |-> excavator,
                      text |-> text])

insert_jr(loco, volume) ==
    Append(jr_records, [id |-> Len(jr_records) + 1,
                        ts |-> strftime_ts(get_now_tashkent),
                        day |-> strftime_day(get_now_tashkent),
                        loco |-> loco,
                        volume |-> volume])

get_jr_by_day(jr, day_str) == SelectSeq(jr, LAMBDA r : r.day = day_str)

----------------------------------------------------------------------------
(* Reports: recs is the table records, cat the table otvals *)

\* lexicographic order of two tuples of numbers of the same length
LexLess(a, b) ==
    \E i \in 1..Len(a) : a[i] < b[i] /\ \A j \in 1..(i - 1) : a[j] = b[j]

\* the tuples of a set in ascending order
RECURSIVE SortSet(_)
SortSet(S) ==
    IF S = {} THEN <<>>
    ELSE LET m == CHOOSE x \in S : \A y \in S \ {x} : LexLess(x, y)
         IN  <<m>> \o SortSet(S \ {m})

\* the column of a table as a sequence
Column(rows, col) == [i \in DOMAIN rows |-> rows[i][col]]

\* SUM(base_volume) in place of SUM(volume)
get_daily_aggregated_all_base(recs, day_str) ==
    LET rec == SelectSeq(recs, LAMBDA r : r.day = day_str)
        keys == {<<Rank(rec[i].excavator), Rank(rec[i].otval), rec[i].truck_id>> :
                    i \in DOMAIN rec}
        ordered == SortSet(keys)
        group(k) == SelectSeq(rec, LAMBDA r :
                        /\ Rank(r.excavator) = k[1]
                        /\ Rank(r.otval) = k[2]
                        /\ r.truck_id = k[3])
    IN  [i \in DOMAIN ordered |->
            [day |-> day_str,
             excavator |-> BinaryOrder[ordered[i][1]],
             otval |-> BinaryOrder[ordered[i][2]],
             truck_id |-> ordered[i][3],
             trips |-> Len(group(ordered[i])),
             obem |-> SumSeq(Column(group(ordered[i]), "base_volume"))]]

\* ORDER BY otval, excavator, truck_id in place of excavator, otval, truck_id
get_daily_aggregated_all_by_otval(recs, day_str) ==
    LET rec == SelectSeq(recs, LAMBDA r : r.day = day_str)
        keys == {<<Rank(rec[i].otval), Rank(rec[i].excavator), rec[i].truck_id>> :
                    i \in DOMAIN rec}
        ordered == SortSet(keys)
        group(k) == SelectSeq(rec, LAMBDA r :
                        /\ Rank(r.otval) = k[1]
                        /\ Rank(r.excavator) = k[2]
                        /\ r.truck_id = k[3])
    IN  [i \in DOMAIN ordered |->
            [day |-> day_str,
             excavator |-> BinaryOrder[ordered[i][2]],
             otval |-> BinaryOrder[ordered[i][1]],
             truck_id |-> ordered[i][3],
             trips |-> Len(group(ordered[i])),
             obem |-> SumSeq(Column(group(ordered[i]), "volume"))]]

\* SELECT day, excavator, otval, truck_id, COUNT(*), SUM(volume) FROM records
\* WHERE day = ? GROUP BY day, excavator, otval, truck_id
\* ORDER BY excavator, otval, truck_id
get_daily_aggregated_all(recs, day_str) ==
    LET rec == SelectSeq(recs, LAMBDA r : r.day = day_str)
        keys == {<<Rank(rec[i].excavator), Rank(rec[i].otval), rec[i].truck_id>> :
                    i \in DOMAIN rec}
        ordered == SortSet(keys)
        group(k) == SelectSeq(rec, LAMBDA r :
                        /\ Rank(r.excavator) = k[1]
                        /\ Rank(r.otval) = k[2]
                        /\ r.truck_id = k[3])
    IN  [i \in DOMAIN ordered |->
            [day |-> day_str,
             excavator |-> BinaryOrder[ordered[i][1]],
             otval |-> BinaryOrder[ordered[i][2]],
             truck_id |-> ordered[i][3],
             trips |-> Len(group(ordered[i])),
             obem |-> SumSeq(Column(group(ordered[i]), "volume"))]]

\* the rows of a left merge of one summary row with the catalog on the name
MergeRow(row, cat) ==
    LET hits == SelectSeq(cat, LAMBDA e : e.name = row.otval)
    IN  IF hits = <<>>
        THEN <<[row EXCEPT !.length = NULL]>>
        ELSE [i \in DOMAIN hits |-> [row EXCEPT !.length = hits[i].length]]

RECURSIVE MergeRows(_, _)
MergeRows(rows, cat) ==
    IF rows = <<>> THEN <<>>
    ELSE MergeRow(Head(rows), cat) \o MergeRows(Tail(rows), cat)

\* how="inner" in place of how="left"
RECURSIVE MergeRowsInner(_, _)
MergeRowsInner(rows, cat) ==
    IF rows = <<>> THEN <<>>
    ELSE LET hits == SelectSeq(cat, LAMBDA e : e.name = Head(rows).otval)
         IN  [i \in DOMAIN hits |-> [Head(rows) EXCEPT !.length = hits[i].length]]
             \o MergeRowsInner(Tail(rows), cat)

get_otval_summary_inner(recs, cat, day_str) ==
    LET df_rec == SelectSeq(recs, LAMBDA r : r.day = day_str)
        keys == {<<Rank(df_rec[i].otval), Rank(df_rec[i].excavator)>> :
                    i \in DOMAIN df_rec}
        ordered == SortSet(keys)
        group(k) == SelectSeq(df_rec, LAMBDA r :
                        Rank(r.otval) = k[1] /\ Rank(r.excavator) = k[2])
        df_all == [i \in DOMAIN ordered |->
                     [day |-> day_str,
                      otval |-> BinaryOrder[ordered[i][1]],
                      excavator |-> BinaryOrder[ordered[i][2]],
                      obem |-> SumSeq(Column(group(ordered[i]), "volume")),
                      length |-> NULL]]
    IN  IF df_rec = <<>> THEN <<>>
        ELSE IF cat # <<>> THEN MergeRowsInner(df_all, cat)
        ELSE df_all

\* groupby(day, otval, excavator) of the day's trips, summed, then the left
\* merge with the catalog
get_otval_summary(recs, cat, day_str) ==
    LET df_rec == SelectSeq(recs, LAMBDA r : r.day = day_str)
        keys == {<<Rank(df_rec[i].otval), Rank(df_rec[i].excavator)>> :
                    i \in DOMAIN df_rec}
        ordered == SortSet(keys)
        group(k) == SelectSeq(df_rec, LAMBDA r :
                        Rank(r.otval) = k[1] /\ Rank(r.excavator) = k[2])
        df_all == [i \in DOMAIN ordered |->
                     [day |-> day_str,
                      otval |-> BinaryOrder[ordered[i][1]],
                      excavator |-> BinaryOrder[ordered[i][2]],
                      obem |-> SumSeq(Column(group(ordered[i]), "volume")),
                      length |-> NULL]]
    IN  IF df_rec = <<>> THEN <<>>
        ELSE IF cat # <<>> THEN MergeRows(df_all, cat)
        ELSE df_all

\* the totals shown under the cross-cut aggregate
total_trips_all(recs, day_str) ==
    SumSeq(Column(get_daily_aggregated_all(recs, day_str), "trips"))

total_obem_all(recs, day_str) ==
    SumSeq(Column(get_daily_aggregated_all(recs, day_str), "obem"))

\* the total row of the sheet of trips
total_obem_det(recs, day_str) ==
    SumSeq(Column(get_daily_details_all(recs, day_str), "volume"))

\* the sheet of sites: the summary grouped by site, and its total row
otval_df_simple(recs, cat, day_str) ==
    LET df_otval_full == get_otval_summary(recs, cat, day_str)
        names == {<<Rank(df_otval_full[i].otval)>> : i \in DOMAIN df_otval_full}
        ordered == SortSet(names)
        group(k) == SelectSeq(df_otval_full, LAMBDA r : Rank(r.otval) = k[1])
    IN  [i \in DOMAIN ordered |->
            [otval |-> BinaryOrder[ordered[i][1]],
             obem |-> SumSeq(Column(group(ordered[i]), "obem"))]]

\* a total row that takes in the rail wagons written below the sites
total_row_otval_jr(recs, cat, day_str) ==
    SumSeq(Column(otval_df_simple(recs, cat, day_str), "obem"))
    + SumSeq(Column(get_jr_by_day(jr_records, day_str), "volume"))

total_row_otval(recs, cat, day_str) ==
    SumSeq(Column(otval_df_simple(recs, cat, day_str), "obem"))

----------------------------------------------------------------------------
(* Initial state: a new belaz.db after init_db, a new session, no call yet *)

\* a call of a store operation: its name, the site name it was given (None
\* when it takes none) and what it returned
Call(op, otval, ret) == [op |-> op, otval |-> otval, ret |-> ret]

NoReturn == [volume |-> NULL, error |-> NULL]
NoCall == Call(None, None, NoReturn)
NotClassified == <<None, 0>>

init_db == ensure_default_otvals(<<>>, 0)

init_session_state ==
    /\ selected_excavator = None
    /\ selected_otval = None
    /\ is_admin = FALSE
    /\ mode = None

InitStore ==
    /\ records = <<>>
    /\ otvals = init_db.otvals
    /\ otval_seq = init_db.seq
    /\ requests = <<>>
    /\ jr_records = <<>>
    /\ utc_now = 0
    /\ last = NoCall
    /\ connections = 0

Init ==
    /\ InitStore
    /\ init_session_state
    /\ arg_truck_id = 0
    /\ classified = NotClassified

----------------------------------------------------------------------------
(* The store operations, each called on its own *)

Tick ==
    /\ utc_now + 20 <= MaxHours
    /\ utc_now' = utc_now + 20
    /\ last' = NoCall
    /\ UNCHANGED <<store_vars, session_vars, classify_vars, connections>>

InsertRecord(excavator, otval, truck_id, is_half) ==
    LET r == insert_record(excavator, otval, truck_id, is_half)
    IN  /\ Len(r.rows) <= MaxRecords
        /\ records' = r.rows
        /\ last' = Call("insert_record", otval, r.ret)
        /\ UNCHANGED <<otvals, otval_seq, requests, jr_records, utc_now,
                       session_vars, classify_vars, connections>>

UpsertOtval(name, length) ==
    LET r == upsert_otval(otvals, otval_seq, name, length)
    IN  /\ r.seq <= MaxOtvalId
        /\ otvals' = r.otvals
        /\ otval_seq' = r.seq
        /\ last' = Call("upsert_otval", name, NoReturn)
        /\ UNCHANGED <<records, requests, jr_records, utc_now,
                       session_vars, classify_vars, connections>>

\* a delete that takes the trips of the site with it
DeleteOtvalCascade(name) ==
    /\ otvals' = delete_otval(otvals, name)
    /\ records' = SelectSeq(records, LAMBDA r : r.otval # name)
    /\ last' = Call("delete_otval", name, NoReturn)
    /\ UNCHANGED <<otval_seq, requests, jr_records, utc_now,
                   session_vars, classify_vars, connections>>

DeleteOtval(name) ==
    /\ otvals' = delete_otval(otvals, name)
    /\ last' = Call("delete_otval", name, NoReturn)
    /\ UNCHANGED <<records, otval_seq, requests, jr_records, utc_now,
                   session_vars, classify_vars, connections>>

EnsureDefaultOtvals ==
    LET r == ensure_default_otvals(otvals, otval_seq)
    IN  /\ r.seq <= MaxOtvalId
        /\ otvals' = r.otvals
        /\ otval_seq' = r.seq
        /\ last' = Call("ensure_default_otvals", None, NoReturn)
        /\ UNCHANGED <<records, requests, jr_records, utc_now,
                       session_vars, classify_vars, connections>>

Next ==
    \/ Tick
    \/ \E a \in TripInputs : InsertRecord(a[1], a[2], a[3], a[4])
    \/ \E n \in OtvalNames, l \in Lengths : UpsertOtval(n, l)
    \/ \E n \in OtvalNames : DeleteOtval(n)
    \/ EnsureDefaultOtvals

Spec == Init /\ [][Next]_vars

----------------------------------------------------------------------------
(* The classification rule, called on its own *)

InitClassify ==
    /\ InitStore
    /\ init_session_state
    /\ arg_truck_id \in TruckRange
    /\ classified = NotClassified

Classify ==
    /\ classified = NotClassified
    /\ classified' = get_volume_by_truck_id(arg_truck_id)
    /\ UNCHANGED <<store_vars, utc_now, last, session_vars, arg_truck_id,
                   connections>>

SpecClassify == InitClassify /\ [][Classify]_vars

----------------------------------------------------------------------------
(* Text typed into the widgets: a text is the sequence of its characters *)

Digits == <<"0", "1", "2", "3", "4", "5", "6", "7", "8", "9">>

DigitValue(c) == (CHOOSE i \in DOMAIN Digits : Digits[i] = c) - 1

\* str.strip
RECURSIVE lstrip(_)
lstrip(t) == IF t # <<>> /\ Head(t) = " " THEN lstrip(Tail(t)) ELSE t

RECURSIVE rstrip(_)
rstrip(t) ==
    IF t # <<>> /\ t[Len(t)] = " " THEN rstrip(SubSeq(t, 1, Len(t) - 1)) ELSE t

strip(t) == rstrip(lstrip(t))

\* str.isdigit
isdigit(t) == t # <<>> /\ \A i \in DOMAIN t : t[i] \in Range(Digits)

\* int(str) of a text of digits
RECURSIVE int(_)
int(t) ==
    IF t = <<>> THEN 0
    ELSE 10 * int(SubSeq(t, 1, Len(t) - 1)) + DigitValue(t[Len(t)])

\* str.replace(",", ".")
replace_comma(t) == [i \in DOMAIN t |-> IF t[i] = "," THEN "." ELSE t[i]]

\* float(str), in tenths: <<x>> for the texts "d..d" and "d..d.d" (spaces
\* around them allowed), NULL where float raises ValueError on the texts of
\* the model
float(t) ==
    LET u == strip(t)
        n == Len(u)
    IN  IF isdigit(u) THEN <<10 * int(u)>>
        ELSE IF /\ n >= 3
                /\ u[n - 1] = "."
                /\ isdigit(SubSeq(u, 1, n - 2))
                /\ isdigit(<<u[n]>>)
             THEN <<10 * int(SubSeq(u, 1, n - 2)) + DigitValue(u[n])>>
             ELSE NULL

\* str.strip of a name: the names of the model carry no spaces at their ends,
\* but for the one that is made of spaces only
strip_name(s) == IF s = "  " THEN "" ELSE s

\* the excavator buttons the operator presses
ExcavatorButtons == {"1Y"}

\* the state of the half-load box when the trip form is sent
HalfBoxes == {FALSE}

\* what the operator types
BelazTexts == {<<>>, <<"x">>, <<"4", "5">>, <<" ", "4", "5">>, <<"1", "5", "0">>}
LenTexts == {<<>>, <<"2", ",", "5">>, <<"x">>}
NameTexts == {"", "  ", "Xoz. rabota 1"}
CodeTexts == {"shjsh707", "12345"}
RequestTexts == {"", "filter"}
LocoTexts == {"", "001"}
VolTexts == {<<>>, <<"x">>, <<"1", "2", "0", ".", "5">>}

----------------------------------------------------------------------------
(* The page: one action per widget event.  An event runs main() from its   *)
(* first line: init_db, init_session_state, the handler of the widget, and *)
(* after st.rerun() the whole of main() once more.  Of the calls of the    *)
(* handlers the page keeps insert_record, whose result it shows, and the   *)
(* two that write the catalog, upsert_otval and delete_otval.              *)

\* the catalog after init_db on the existing tables
AtStart == ensure_default_otvals(otvals, otval_seq)

\* the catalog at the end of the event: c is the catalog the handler left
AtEnd(c, rerun) ==
    IF rerun THEN ensure_default_otvals(c.otvals, c.seq) ELSE c

SetCatalog(c) ==
    /\ c.seq <= MaxOtvalId
    /\ otvals' = c.otvals
    /\ otval_seq' = c.seq

\* an event whose handler writes nothing to the store
NoWrite(rerun) ==
    /\ SetCatalog(AtEnd(AtStart, rerun))
    /\ last' = NoCall
    /\ UNCHANGED <<records, requests, jr_records, utc_now, classify_vars,
                   connections>>

\* an event whose handler calls upsert_otval(name, length) and reruns
WriteOtval(name, length) ==
    /\ SetCatalog(AtEnd(upsert_otval(AtStart.otvals, AtStart.seq, name, length),
                        TRUE))
    /\ last' = Call("upsert_otval", name, NoReturn)
    /\ UNCHANGED <<records, requests, jr_records, utc_now, classify_vars,
                   connections>>

\* the rows of the three ledgers
Rows == Len(records) + Len(requests) + Len(jr_records)

InPogruzki ==
    /\ selected_excavator # None
    /\ mode # None
    /\ mode # "zayavki"

Render ==
    /\ NoWrite(FALSE)
    /\ UNCHANGED session_vars

\* the comparison with ADMIN_CODE turned around
Login_inverted(admin_input) ==
    /\ is_admin' = IF admin_input # ADMIN_CODE THEN TRUE ELSE is_admin
    /\ NoWrite(FALSE)
    /\ UNCHANGED <<selected_excavator, selected_otval, mode>>

Login(admin_input) ==
    /\ is_admin' = IF admin_input = ADMIN_CODE THEN TRUE ELSE is_admin
    /\ NoWrite(FALSE)
    /\ UNCHANGED <<selected_excavator, selected_otval, mode>>

Logout ==
    /\ is_admin' = FALSE
    /\ NoWrite(FALSE)
    /\ UNCHANGED <<selected_excavator, selected_otval, mode>>

SelectExcavator(exc) ==
    /\ selected_excavator = None
    /\ selected_excavator' = exc
    /\ selected_otval' = None
    /\ mode' = None
    /\ NoWrite(TRUE)
    /\ UNCHANGED is_admin

\* the button that forgets the excavator and keeps the site and the mode
ChangeExcavator_keep ==
    /\ selected_excavator # None
    /\ selected_excavator' = None
    /\ NoWrite(TRUE)
    /\ UNCHANGED <<selected_otval, mode, is_admin>>

ChangeExcavator ==
    /\ selected_excavator # None
    /\ selected_excavator' = None
    /\ selected_otval' = None
    /\ mode' = None
    /\ NoWrite(TRUE)
    /\ UNCHANGED is_admin

ChooseMode(m) ==
    /\ selected_excavator # None
    /\ mode = None
    /\ mode' = m
    /\ NoWrite(TRUE)
    /\ UNCHANGED <<selected_excavator, selected_otval, is_admin>>

SubmitRequest(text) ==
    LET clean_text == strip_name(text)
    IN  /\ selected_excavator # None
        /\ mode = "zayavki"
        /\ IF clean_text = ""
           THEN /\ NoWrite(FALSE)
                /\ UNCHANGED session_vars
           ELSE /\ Rows < MaxRows
                /\ requests' = insert_request(selected_excavator, clean_text)
                /\ SetCatalog(AtEnd(AtStart, TRUE))
                /\ last' = NoCall
                /\ UNCHANGED <<records, jr_records, utc_now, classify_vars,
                               connections,
                               session_vars>>

GoToPogruzki ==
    /\ selected_excavator # None
    /\ mode = "zayavki"
    /\ mode' = "pogruzki"
    /\ NoWrite(TRUE)
    /\ UNCHANGED <<selected_excavator, selected_otval, is_admin>>

\* the two forms that save a site: a name, and a length that may be left empty
SaveOtval(name, len_text) ==
    LET blank == strip(len_text) = <<>>
        length_val == IF blank THEN NULL ELSE float(replace_comma(len_text))
    IN  IF name = "" THEN NoWrite(FALSE)
        ELSE IF blank \/ length_val # NULL THEN WriteOtval(name, length_val)
        ELSE NoWrite(FALSE)

SaveLength(name_select, len_str) ==
    /\ InPogruzki
    /\ selected_otval = None
    /\ name_select \in Names(AtStart.otvals)
    /\ IF strip(len_str) = <<>> \/ float(replace_comma(len_str)) = NULL
       THEN NoWrite(FALSE)
       ELSE WriteOtval(name_select, float(replace_comma(len_str)))
    /\ UNCHANGED session_vars

AddHoz(hw_name, hw_len_str) ==
    /\ InPogruzki
    /\ selected_otval = None
    /\ SaveOtval(strip_name(hw_name), hw_len_str)
    /\ UNCHANGED session_vars

SelectOtval(name) ==
    /\ InPogruzki
    /\ selected_otval = None
    /\ name \in Names(AtStart.otvals)
    /\ selected_otval' = name
    /\ NoWrite(TRUE)
    /\ UNCHANGED <<selected_excavator, mode, is_admin>>

SelectJR ==
    /\ InPogruzki
    /\ selected_otval = None
    /\ selected_otval' = OTVAL_JR
    /\ NoWrite(TRUE)
    /\ UNCHANGED <<selected_excavator, mode, is_admin>>

ChangeOtval ==
    /\ InPogruzki
    /\ selected_otval # None
    /\ selected_otval' = None
    /\ NoWrite(TRUE)
    /\ UNCHANGED <<selected_excavator, mode, is_admin>>

GoToZayavki ==
    /\ InPogruzki
    /\ selected_otval # None
    /\ mode' = "zayavki"
    /\ selected_otval' = None
    /\ NoWrite(TRUE)
    /\ UNCHANGED <<selected_excavator, is_admin>>

SubmitJr(loco, vol_str) ==
    LET loco_clean == strip_name(loco)
        vol_clean == strip(vol_str)
        vol_val == float(replace_comma(vol_clean))
    IN  /\ InPogruzki
        /\ selected_otval = OTVAL_JR
        /\ IF loco_clean = "" \/ vol_clean = <<>> \/ vol_val = NULL
           THEN NoWrite(FALSE)
           ELSE /\ Rows < MaxRows
                /\ jr_records' = insert_jr(loco_clean, vol_val[1])
                /\ SetCatalog(AtStart)
                /\ last' = NoCall
                /\ UNCHANGED <<records, requests, utc_now, classify_vars,
                               connections>>
        /\ UNCHANGED session_vars

\* the trip form shown for the rail mode as well
SubmitTrip_jr(belaz_input, is_half) ==
    LET belaz_str == strip(belaz_input)
        r == insert_record(selected_excavator, selected_otval, int(belaz_str),
                           is_half)
    IN  /\ InPogruzki
        /\ selected_otval # None
        /\ IF belaz_str = <<>> \/ ~isdigit(belaz_str)
           THEN NoWrite(FALSE)
           ELSE /\ Rows - Len(records) + Len(r.rows) <= MaxRows
                /\ records' = r.rows
                /\ SetCatalog(AtStart)
                /\ last' = Call("insert_record", selected_otval, r.ret)
                /\ UNCHANGED <<requests, jr_records, utc_now, classify_vars,
                               connections>>
        /\ UNCHANGED session_vars

SubmitTrip(belaz_input, is_half) ==
    LET belaz_str == strip(belaz_input)
        r == insert_record(selected_excavator, selected_otval, int(belaz_str),
                           is_half)
    IN  /\ InPogruzki
        /\ selected_otval # None
        /\ selected_otval # OTVAL_JR
        /\ IF belaz_str = <<>> \/ ~isdigit(belaz_str)
           THEN NoWrite(FALSE)
           ELSE /\ Rows - Len(records) + Len(r.rows) <= MaxRows
                /\ records' = r.rows
                /\ SetCatalog(AtStart)
                /\ last' = Call("insert_record", selected_otval, r.ret)
                /\ UNCHANGED <<requests, jr_records, utc_now, classify_vars,
                               connections>>
        /\ UNCHANGED session_vars

special_new == "new"

AdminSave(sel_for_edit, new_name, new_len_input_admin) ==
    LET new_otval_name_admin ==
            IF sel_for_edit = special_new THEN new_name ELSE sel_for_edit
    IN  /\ InPogruzki
        /\ selected_otval # None
        /\ is_admin
        /\ sel_for_edit \in {special_new} \cup Names(AtStart.otvals)
        /\ SaveOtval(strip_name(new_otval_name_admin), new_len_input_admin)
        /\ UNCHANGED session_vars

\* the delete button shown without the test of the flag
AdminDelete_open(del_name) ==
    /\ InPogruzki
    /\ selected_otval # None
    /\ del_name \in Names(AtStart.otvals)
    /\ SetCatalog(AtEnd([otvals |-> delete_otval(AtStart.otvals, del_name),
                         seq |-> AtStart.seq], TRUE))
    /\ last' = Call("delete_otval", del_name, NoReturn)
    /\ UNCHANGED <<records, requests, jr_records, utc_now, classify_vars,
                   connections,
                   session_vars>>

AdminDelete(del_name) ==
    /\ InPogruzki
    /\ selected_otval # None
    /\ is_admin
    /\ del_name \in Names(AtStart.otvals)
    /\ SetCatalog(AtEnd([otvals |-> delete_otval(AtStart.otvals, del_name),
                         seq |-> AtStart.seq], TRUE))
    /\ last' = Call("delete_otval", del_name, NoReturn)
    /\ UNCHANGED <<records, requests, jr_records, utc_now, classify_vars,
                   connections,
                   session_vars>>

NextUI ==
    \/ Tick
    \/ Render
    \/ \E c \in CodeTexts : Login(c)
    \/ Logout
    \/ \E e \in ExcavatorButtons : SelectExcavator(e)
    \/ ChangeExcavator
    \/ \E m \in {"pogruzki", "zayavki"} : ChooseMode(m)
    \/ \E t \in RequestTexts : SubmitRequest(t)
    \/ GoToPogruzki
    \/ \E n \in OtvalNames, t \in LenTexts : SaveLength(n, t)
    \/ \E n \in NameTexts, t \in LenTexts : AddHoz(n, t)
    \/ \E n \in OtvalNames : SelectOtval(n)
    \/ SelectJR
    \/ ChangeOtval
    \/ GoToZayavki
    \/ \E l \in LocoTexts, v \in VolTexts : SubmitJr(l, v)
    \/ \E b \in BelazTexts, h \in HalfBoxes : SubmitTrip(b, h)
    \/ \E n \in OtvalNames, t \in LenTexts : AdminSave(n, "", t)
    \/ \E x \in NameTexts, t \in LenTexts : AdminSave(special_new, x, t)
    \/ \E n \in OtvalNames : AdminDelete(n)

SpecUI == Init /\ [][NextUI]_vars

----------------------------------------------------------------------------
(* Properties *)

\* the days the clock of the model reaches
Days == 0..((MaxHours + 5) \div 24)

KnownBands == (0..99) \cup (100..140) \cup (200..205)

LastRecord == records[Len(records)]

\* C1: get_volume_by_truck_id is total on the integers: base volume 42.0 for
\* every id of 0..99, 75.0 for 100..140, 50.0 for 200..205, and the label
\* "unknown" with base volume 0 for every other id, negative ones included.
C1_Classification ==
    classified # NotClassified =>
        /\ arg_truck_id \in 0..99 => classified[2] = 420
        /\ arg_truck_id \in 100..140 => classified[2] = 750
        /\ arg_truck_id \in 200..205 => classified[2] = 500
        /\ arg_truck_id \notin KnownBands => classified = <<"unknown", 0>>

C1_Witness == arg_truck_id < 0 /\ classified = <<"unknown", 0>>

\* C2: every stored trip has volume = base_volume x factor, the factor being
\* 0.5 or 1.0 and base_volume the classification of its truck id; a successful
\* insert_record stores the excavator and site it was given with factor 0.5
\* exactly when the half-load flag is set, and returns the stored volume.
C2_StoredVolume ==
    /\ \A i \in DOMAIN records :
          /\ records[i].factor \in {5, 10}
          /\ records[i].base_volume = get_volume_by_truck_id(records[i].truck_id)[2]
          /\ 10 * records[i].volume = records[i].base_volume * records[i].factor
    /\ (last.op = "insert_record" /\ last.ret.error = NULL) =>
          /\ records # <<>>
          /\ last.ret.volume = <<LastRecord.volume>>

C2_InsertStep ==
    \A a \in TripInputs :
        (InsertRecord(a[1], a[2], a[3], a[4]) /\ last'.ret.error = NULL) =>
            /\ LastRecord'.excavator = a[1]
            /\ LastRecord'.otval = a[2]
            /\ LastRecord'.truck_id = a[3]
            /\ LastRecord'.factor = IF a[4] THEN 5 ELSE 10
            /\ 10 * last'.ret.volume[1] =
                  get_volume_by_truck_id(a[3])[2] * (IF a[4] THEN 5 ELSE 10)

\* C2: every stored trip has volume = base volume x factor, the factor being
\* 0.5 or 1.0, and a successful insert_record returns the volume it stored.
C2_VolumeInvariant == []C2_StoredVolume /\ [][C2_InsertStep]_vars

C2_Witness ==
    /\ last.op = "insert_record"
    /\ last.ret.volume = <<210>>
    /\ Len(records) = 2
    /\ records[1].volume = 420

\* C3: insert_record with a truck id outside the known bands returns an error
\* and no volume, writes nothing, and leaves the trips and every daily
\* aggregate as they were; no stored trip has a truck id outside the bands.
C3_Rejected ==
    \A a \in TripInputs :
        (InsertRecord(a[1], a[2], a[3], a[4]) /\ a[3] \notin KnownBands) =>
            /\ last'.ret.volume = NULL
            /\ last'.ret.error # NULL
            /\ store_vars' = store_vars
            /\ \A d \in Days :
                  /\ get_daily_aggregated_all(records', d) =
                        get_daily_aggregated_all(records, d)
                  /\ get_otval_summary(records', otvals', d) =
                        get_otval_summary(records, otvals, d)
                  /\ get_daily_details_all(records', d) =
                        get_daily_details_all(records, d)

\* C3: insert_record of a truck id of no band returns an error and no volume
\* and writes nothing, so no stored trip has a truck id outside the bands.
C3_UnclassifiedTruck ==
    /\ [](\A i \in DOMAIN records : records[i].truck_id \in KnownBands)
    /\ [][C3_Rejected]_vars

C3_Witness ==
    /\ last.op = "insert_record"
    /\ last.ret.error # NULL
    /\ last.ret.volume = NULL
    /\ Len(records) = 1

\* C4: the trips are an append-only ledger: whatever the page does (trips,
\* site saves and deletions, seeding, requests, rail records, login, logout,
\* navigation), every trip that existed keeps its place and all its fields,
\* and a successful insert_record adds exactly one row.
C4_LedgerStep ==
    /\ Len(records') >= Len(records)
    /\ SubSeq(records', 1, Len(records)) = records
    /\ Len(records') <= Len(records) + 1
    /\ (last'.op = "insert_record" /\ last'.ret.error = NULL) =>
          Len(records') = Len(records) + 1

\* C4: no event of the page changes or removes a stored trip; the ledger
\* only grows, by one row at its end per successful insert_record.
C4_AppendOnly == [][C4_LedgerStep]_vars

C4_Witness ==
    /\ Len(records) = 2
    /\ ~HasName(otvals, records[1].otval)
    /\ selected_excavator = None
    /\ ~is_admin

\* C5: delete_otval(name) removes the catalog entry of that name and nothing
\* else: the number of trips, the sum of their volumes and the cross-cut
\* aggregate of every day are the same after it as before, also when trips
\* carry the deleted name.
C5_DeleteStep ==
    \A n \in OtvalNames :
        DeleteOtval(n) =>
            /\ Len(records') = Len(records)
            /\ SumSeq(Column(records', "volume")) = SumSeq(Column(records, "volume"))
            /\ \A d \in Days :
                  get_daily_aggregated_all(records', d) =
                     get_daily_aggregated_all(records, d)
            /\ Names(otvals') = Names(otvals) \ {n}
            /\ \A i \in DOMAIN otvals' : otvals'[i] \in Range(otvals)

\* C5: delete_otval removes the catalog entry of the name and nothing else;
\* the trips that name the site stay as they were.
C5_DeleteKeepsTrips == [][C5_DeleteStep]_vars

C5_Witness ==
    /\ last.op = "delete_otval"
    /\ last.otval = "MOF-2"
    /\ ~HasName(otvals, "MOF-2")
    /\ \E i \in DOMAIN records : records[i].otval = "MOF-2"

\* C6: upsert_otval(name, length) is possible whenever the name exists; after
\* it the catalog holds exactly one entry of that name, with the given length
\* (NULL when NULL is given); an entry that existed keeps its id and its place
\* and every other entry is unchanged.
C6_UpsertStep ==
    \A n \in OtvalNames, l \in Lengths :
        UpsertOtval(n, l) =>
            /\ Cardinality({i \in DOMAIN otvals' : otvals'[i].name = n}) = 1
            /\ \A i \in DOMAIN otvals' :
                  otvals'[i].name = n => otvals'[i].length = l
            /\ \A i \in DOMAIN otvals :
                  /\ otvals'[i].id = otvals[i].id
                  /\ otvals'[i].name = otvals[i].name
                  /\ otvals[i].name # n => otvals'[i] = otvals[i]
            /\ Len(otvals') = IF HasName(otvals, n) THEN Len(otvals)
                                                    ELSE Len(otvals) + 1

C6_Possible ==
    \A n \in OtvalNames, l \in Lengths :
        HasName(otvals, n) => ENABLED UpsertOtval(n, l)

\* C6: upsert_otval of an existing name is always possible and replaces its
\* length in place; of a new name it adds one entry; others are unchanged.
C6_Upsert == []C6_Possible /\ [][C6_UpsertStep]_vars

C6_Witness ==
    /\ last.op = "upsert_otval"
    /\ last.otval = "MOF-2"
    /\ \E i \in DOMAIN otvals :
          /\ otvals[i].name = "MOF-2"
          /\ otvals[i].id <= Len(default_otvals)
          /\ otvals[i].length = <<25>>

\* C7: ensure_default_otvals leaves a catalog that holds every default name
\* as it is, never makes a second entry of a name, and never changes an entry
\* that exists (a length that is set stays set); after it every default name
\* is in the catalog.
C7_SeedStep ==
    EnsureDefaultOtvals =>
        /\ Range(default_otvals) \subseteq Names(otvals) => otvals' = otvals
        /\ \A i, j \in DOMAIN otvals' :
              otvals'[i].name = otvals'[j].name => i = j
        /\ Len(otvals') >= Len(otvals)
        /\ \A i \in DOMAIN otvals : otvals'[i] = otvals[i]
        /\ Range(default_otvals) \subseteq Names(otvals')

\* C7: ensure_default_otvals adds the missing default names with no length
\* and changes no existing entry; running it again changes nothing.
C7_Seeding == [][C7_SeedStep]_vars

C7_Witness ==
    /\ last.op = "ensure_default_otvals"
    /\ get_otval_length(otvals, "MOF-2") = <<25>>

\* C8: for every day, the volumes of the cross-cut aggregate add up to the
\* total row of the sheet of trips and to the total row of the sheet of
\* sites, and its trip counts add up to the number of trips of that day.
C8_Totals ==
    \A d \in Days :
        /\ total_obem_all(records, d) = total_obem_det(records, d)
        /\ total_obem_all(records, d) = total_row_otval(records, otvals, d)
        /\ total_trips_all(records, d) = Len(get_daily_details_all(records, d))

C8_Witness ==
    \E d \in Days :
        /\ Len(get_daily_details_all(records, d)) = 2
        /\ Len(get_daily_aggregated_all(records, d)) = 2
        /\ total_obem_all(records, d) = 630

\* C9: the site summary of a day has exactly one row for each (site,
\* excavator) with a trip that day, with the sum of the volumes of those
\* trips; a catalog entry without a trip that day gives no row; the row
\* carries the catalog length of the site, and no length when the site is
\* not in the catalog.
C9_SiteSummary ==
    \A d \in Days :
        LET S == get_otval_summary(records, otvals, d)
            trips == SelectSeq(records, LAMBDA r : r.day = d)
            pairs == {<<trips[i].otval, trips[i].excavator>> : i \in DOMAIN trips}
            volume_of(o, e) ==
                SumSeq(Column(SelectSeq(trips, LAMBDA r :
                                  r.otval = o /\ r.excavator = e), "volume"))
        IN  /\ Len(S) = Cardinality(pairs)
            /\ \A p \in pairs : \E i \in DOMAIN S :
                  S[i].otval = p[1] /\ S[i].excavator = p[2]
            /\ \A i \in DOMAIN S :
                  /\ <<S[i].otval, S[i].excavator>> \in pairs
                  /\ S[i].day = d
                  /\ S[i].obem = volume_of(S[i].otval, S[i].excavator)
                  /\ HasName(otvals, S[i].otval) =>
                        \E k \in DOMAIN otvals :
                            /\ otvals[k].name = S[i].otval
                            /\ otvals[k].length = S[i].length
                  /\ ~HasName(otvals, S[i].otval) => S[i].length = NULL

C9_Witness ==
    \E d \in Days :
        LET S == get_otval_summary(records, otvals, d)
        IN  \E i, j \in DOMAIN S :
                /\ S[i].length = <<25>>
                /\ ~HasName(otvals, S[j].otval)

\* C10 as stated: once the access flag is true it is true in every later
\* state of the session.
C10_Original == [][is_admin => is_admin']_vars

\* C10: a login with the code ADMIN_CODE makes the access flag true, and the
\* flag then stays true until the logout button is pressed: no other action
\* of the page clears it.
C10_LoginStep ==
    /\ Login(ADMIN_CODE) => is_admin'
    /\ (is_admin /\ ~is_admin') => Logout

\* C10 (as it holds in the code): a login with the correct code sets the flag,
\* and the flag goes from true to false only by the logout button.
C10_UntilLogout == [][C10_LoginStep]_vars

C10_Witness ==
    /\ is_admin
    /\ selected_otval = "MOF-2"
    /\ Len(records) = 1
    /\ utc_now > 0

----------------------------------------------------------------------------
(* The access gate and the catalog *)

CatalogWrites == {"upsert_otval", "delete_otval"}

\* C11 as stated: in a session whose access flag is false no event of the
\* page executes upsert_otval or delete_otval.
C11_Original == [][~is_admin => last'.op \notin CatalogWrites]_vars

C11_WriteStep ==
    /\ last'.op = "delete_otval" => is_admin
    /\ (~is_admin /\ last'.op \in CatalogWrites) =>
          /\ last'.op = "upsert_otval"
          /\ selected_otval = None
          /\ selected_excavator # None
          /\ mode = "pogruzki"

\* C11 (as it holds in the code): while the access flag is false no event of
\* the page executes delete_otval, and upsert_otval is executed only by the
\* save buttons of the distance / household-work expander, which the page
\* shows in the loading mode before a site is selected.
C11_GatedDelete == [][C11_WriteStep]_vars

C11_Witness ==
    /\ ~is_admin
    /\ last.op = "upsert_otval"
    /\ \E i \in DOMAIN otvals :
          otvals[i].name = last.otval /\ otvals[i].length # NULL

----------------------------------------------------------------------------
(* What a run of main() shows: the views of the summary tab for the day    *)
(* picked in its date input, in the order of the code, up to its return    *)

\* the part of the tab that every session gets
tab2_svod(day_str) ==
    IF get_daily_aggregated_all(records, day_str) = <<>> THEN {}
    ELSE {"df_all_agg"}

\* the admin panel
tab2_admin(day_str) ==
    (IF get_otval_summary(records, otvals, day_str) = <<>> THEN {}
     ELSE {"df_otval_full"})
    \cup (IF get_daily_details_all(records, day_str) = <<>> THEN {}
          ELSE {"download_pogruzki"})
    \cup (IF SelectSeq(requests, LAMBDA r : r.day = day_str) = <<>> THEN {}
          ELSE {"download_zayavki"})
    \cup {"df_otvals_table"}

\* the summary tab with the admin panel in front of the gate
main_tab2_nogate(day_str) ==
    IF selected_excavator = None \/ mode = None \/ mode = "zayavki"
       \/ selected_otval = None
    THEN {}
    ELSE tab2_svod(day_str) \cup tab2_admin(day_str)

main_tab2(day_str) ==
    IF selected_excavator = None THEN {}
    ELSE IF mode = None THEN {}
    ELSE IF mode = "zayavki" THEN {}
    ELSE IF selected_otval = None THEN {}
    ELSE IF ~is_admin THEN tab2_svod(day_str)
    ELSE tab2_svod(day_str) \cup tab2_admin(day_str)

AdminViews == {"df_otval_full", "download_pogruzki", "download_zayavki",
               "df_otvals_table"}

\* C12 as stated: the cross-cut aggregate, the site summary and the export
\* are shown only in a render where the access flag is true.
C12_Original ==
    \A d \in Days :
        main_tab2(d) \cap {"df_all_agg", "df_otval_full", "download_pogruzki"}
            # {} => is_admin

\* C12 (as it holds in the code): the site summary, the spreadsheet exports
\* and the catalog panel are produced only in a render where the access flag
\* is true; the cross-cut aggregate of a day with trips is shown in every
\* render that has a site selected, whatever the flag.
C12_GatedViews ==
    \A d \in Days :
        /\ main_tab2(d) \cap AdminViews # {} => is_admin
        /\ (InPogruzki /\ selected_otval # None
              /\ get_daily_details_all(records, d) # <<>>) =>
              "df_all_agg" \in main_tab2(d)

C12_Witness ==
    \E d \in Days :
        /\ is_admin
        /\ {"df_all_agg", "df_otval_full", "download_pogruzki"}
              \subseteq main_tab2(d)

----------------------------------------------------------------------------
(* The rail wagons *)

\* the volume of the trips of a day, added up over the table records alone
TripVolume(day_str) ==
    LET Sum[n \in 0..Len(records)] ==
            IF n = 0 THEN 0
            ELSE Sum[n - 1]
                 + (IF records[n].day = day_str THEN records[n].volume ELSE 0)
    IN  Sum[Len(records)]

C13_Totals ==
    \A d \in Days :
        /\ total_obem_all(records, d) = TripVolume(d)
        /\ total_obem_det(records, d) = TripVolume(d)
        /\ total_row_otval(records, otvals, d) = TripVolume(d)
        /\ \A i \in DOMAIN get_daily_aggregated_all(records, d) :
              get_daily_aggregated_all(records, d)[i].otval # OTVAL_JR

C13_JrStep ==
    jr_records' # jr_records =>
        /\ records' = records
        /\ Len(jr_records') = Len(jr_records) + 1
        /\ SubSeq(jr_records', 1, Len(jr_records)) = jr_records

\* C13: the rail wagons are a ledger of their own: saving one changes no trip
\* record, and for every day the cross-cut totals, the detail total row and
\* the site total row are the volume of the trips of that day alone, whatever
\* rail-wagon records that day has.
C13_SeparateLedger == []C13_Totals /\ [][C13_JrStep]_vars

C13_Witness ==
    \E d \in Days :
        /\ get_jr_by_day(jr_records, d) # <<>>
        /\ get_daily_details_all(records, d) # <<>>
        /\ total_row_otval(records, otvals, d) = 420

----------------------------------------------------------------------------
(* The cross-cut aggregate *)

\* the trips of a day with a given excavator, site and truck
TripsOf(day_str, e, o, t) ==
    {j \in DOMAIN records :
        /\ records[j].day = day_str
        /\ records[j].excavator = e
        /\ records[j].otval = o
        /\ records[j].truck_id = t}

\* the volumes of a set of trips added up
VolumeOf(J) ==
    LET Sum[n \in 0..Len(records)] ==
            IF n = 0 THEN 0
            ELSE Sum[n - 1] + (IF n \in J THEN records[n].volume ELSE 0)
    IN  Sum[Len(records)]

\* row a comes before row b in the order (excavator, site, truck id)
RowBefore(a, b) ==
    \/ Rank(a.excavator) < Rank(b.excavator)
    \/ /\ a.excavator = b.excavator
       /\ Rank(a.otval) < Rank(b.otval)
    \/ /\ a.excavator = b.excavator
       /\ a.otval = b.otval
       /\ a.truck_id < b.truck_id

----------------------------------------------------------------------------
(* The connections.  Every store operation starts with get_connection() and *)
(* calls conn.close() as a statement of its own, after its SQL statements;  *)
(* none holds the connection in a with block or a try/finally.  A statement *)
(* that raises leaves the function at once.  Each action below is one call  *)
(* of an operation, from get_connection() to its return or its exception.   *)

MaxConnections == 2

\* the volumes given to insert_jr: a number, in tenths, and float("nan"),
\* which SQLite binds as NULL
JrVolumes == {[nan |-> FALSE, tenths |-> 1205], [nan |-> TRUE, tenths |-> 0]}

\* the operations that only read
Queries == {"get_daily_records", "get_daily_details_all",
            "get_daily_aggregated_all", "get_otvals_table", "get_otval_length",
            "get_jr_by_day", "get_otval_summary"}

\* sqlite3.connect
get_connection == connections + 1

\* the exception of a statement that fails
Raised(exc) == [volume |-> NULL, error |-> exc]

\* the call ends with conn.close()
Closed(op, otval, ret) ==
    /\ connections' = get_connection - 1
    /\ last' = Call(op, otval, ret)

\* the call ends with an exception of a statement, before conn.close()
Raises(op, otval, exc) ==
    /\ get_connection <= MaxConnections
    /\ connections' = get_connection
    /\ last' = Call(op, otval, Raised(exc))

\* a statement fails when the database is locked by another writer, the
\* disk is full or the file is damaged
StatementFails == BOOLEAN

CallInsertRecord(excavator, otval, truck_id, is_half, fails) ==
    LET r == insert_record(excavator, otval, truck_id, is_half)
    IN  /\ Rows - Len(records) + Len(r.rows) <= MaxRows
        /\ IF r.ret.error # NULL
           THEN Closed("insert_record", otval, r.ret) /\ UNCHANGED records
           ELSE IF fails
           THEN /\ Raises("insert_record", otval, "OperationalError")
                /\ UNCHANGED records
           ELSE /\ Closed("insert_record", otval, r.ret)
                /\ records' = r.rows
        /\ UNCHANGED <<otvals, otval_seq, requests, jr_records, utc_now,
                       session_vars, classify_vars>>

CallInsertJr(loco, volume, fails) ==
    /\ Rows < MaxRows
    /\ IF volume.nan
       THEN Raises("insert_jr", None, "IntegrityError") /\ UNCHANGED jr_records
       ELSE IF fails
       THEN Raises("insert_jr", None, "OperationalError") /\ UNCHANGED jr_records
       ELSE /\ Closed("insert_jr", None, NoReturn)
            /\ jr_records' = insert_jr(loco, volume.tenths)
    /\ UNCHANGED <<records, otvals, otval_seq, requests, utc_now,
                   session_vars, classify_vars>>

CallInsertRequest(excavator, text, fails) ==
    /\ Rows < MaxRows
    /\ IF fails
       THEN Raises("insert_request", None, "OperationalError")
            /\ UNCHANGED requests
       ELSE /\ Closed("insert_request", None, NoReturn)
            /\ requests' = insert_request(excavator, text)
    /\ UNCHANGED <<records, otvals, otval_seq, jr_records, utc_now,
                   session_vars, classify_vars>>

CallUpsertOtval(name, length, fails) ==
    LET r == upsert_otval(otvals, otval_seq, name, length)
    IN  /\ r.seq <= MaxOtvalId
        /\ IF fails
           THEN Raises("upsert_otval", name, "OperationalError")
                /\ UNCHANGED <<otvals, otval_seq>>
           ELSE /\ Closed("upsert_otval", name, NoReturn)
                /\ otvals' = r.otvals
                /\ otval_seq' = r.seq
        /\ UNCHANGED <<records, requests, jr_records, utc_now,
                       session_vars, classify_vars>>

CallDeleteOtval(name, fails) ==
    /\ IF fails
       THEN Raises("delete_otval", name, "OperationalError") /\ UNCHANGED otvals
       ELSE /\ Closed("delete_otval", name, NoReturn)
            /\ otvals' = delete_otval(otvals, name)
    /\ UNCHANGED <<records, otval_seq, requests, jr_records, utc_now,
                   session_vars, classify_vars>>

CallEnsureDefaultOtvals(fails) ==
    LET r == ensure_default_otvals(otvals, otval_seq)
    IN  /\ r.seq <= MaxOtvalId
        /\ IF fails
           THEN Raises("ensure_default_otvals", None, "OperationalError")
                /\ UNCHANGED <<otvals, otval_seq>>
           ELSE /\ Closed("ensure_default_otvals", None, NoReturn)
                /\ otvals' = r.otvals
                /\ otval_seq' = r.seq
        /\ UNCHANGED <<records, requests, jr_records, utc_now,
                       session_vars, classify_vars>>

CallQuery(q, fails) ==
    /\ IF fails
       THEN Raises(q, None, "OperationalError")
       ELSE Closed(q, None, NoReturn)
    /\ UNCHANGED <<store_vars, utc_now, session_vars, classify_vars>>

NextConn ==
    \/ \E a \in TripInputs, f \in StatementFails :
          CallInsertRecord(a[1], a[2], a[3], a[4], f)
    \/ \E v \in JrVolumes, f \in StatementFails : CallInsertJr("001", v, f)
    \/ \E f \in StatementFails : CallInsertRequest("1Y", "filter", f)
    \/ \E n \in OtvalNames, l \in Lengths, f \in StatementFails :
          CallUpsertOtval(n, l, f)
    \/ \E n \in OtvalNames, f \in StatementFails : CallDeleteOtval(n, f)
    \/ \E f \in StatementFails : CallEnsureDefaultOtvals(f)
    \/ \E q \in Queries, f \in StatementFails : CallQuery(q, f)

SpecConn == Init /\ [][NextConn]_vars

\* C15 as stated: after any store operation has returned or raised, no
\* connection that it opened remains open.
C15_Released == connections = 0

----------------------------------------------------------------------------
(* Navigation *)

C16_Inv ==
    /\ selected_otval # None =>
          mode = "pogruzki" /\ selected_excavator # None
    /\ mode # None => selected_excavator # None

C16_ExcavatorStep ==
    selected_excavator' # selected_excavator =>
        selected_otval' = None /\ mode' = None

\* C16: in every state of a session a selected site implies the loading mode
\* and a selected excavator, a chosen mode implies a selected excavator, and
\* every event that selects or changes the excavator leaves the site and the
\* mode at None.
C16_Navigation == []C16_Inv /\ [][C16_ExcavatorStep]_vars

C16_Witness ==
    /\ selected_excavator = None
    /\ records # <<>>
    /\ requests # <<>>

----------------------------------------------------------------------------
(* Today's trips.  The day of a trip is stamped from get_now_tashkent(),    *)
(* utcnow() + 5 h; the listing of today's trips asks for date.today(), the  *)
(* date of the server's own zone.                                           *)

\* the zones the server may be set to, in hours east of UTC: UTC, as the
\* docstring of get_now_tashkent reckons with, and Tashkent
LocalOffsets == {0, 5}

\* date.today().strftime("%Y-%m-%d") on a server of the given zone
date_today(offset) == (utc_now + offset) \div 24

\* df_ex_today
df_ex_today(offset) ==
    get_daily_records(records, date_today(offset), selected_excavator)

\* C17 as stated: right after a successful insert_record for the selected
\* excavator, the listing of today's trips of that excavator holds the new
\* record, at every time of day.
C17_SavedTripListed ==
    (last.op = "insert_record" /\ last.ret.error = NULL) =>
        \A o \in LocalOffsets : LastRecord \in Range(df_ex_today(o))

----------------------------------------------------------------------------
(* Deleted sites *)

C18_DeleteStep ==
    \A n \in Names(otvals) \cup Names(otvals') :
        /\ (last'.op = "delete_otval" /\ last'.otval = n) =>
              ~HasName(get_otvals_table(otvals'), n)
        /\ (~HasName(otvals, n) /\ HasName(otvals', n)) =>
              last'.op = "upsert_otval" /\ last'.otval = n

\* C18 as stated: after the administrator deletes a catalog entry, default or
\* not, the catalog listing of every later render does not hold that name
\* until an upsert of that name is performed.
C18_DeletedStays == [][C18_DeleteStep]_vars

----------------------------------------------------------------------------
(* Several sessions.  Each session has its own st.session_state and all    *)
(* share belaz.db: the session of the model sees the others through their  *)
(* writes of the catalog, each made by a run of main() in the other session *)

OtherSaveOtval(name, length) ==
    /\ WriteOtval(name, length)
    /\ UNCHANGED session_vars

OtherDeleteOtval(del_name) ==
    /\ del_name \in Names(AtStart.otvals)
    /\ SetCatalog(AtEnd([otvals |-> delete_otval(AtStart.otvals, del_name),
                         seq |-> AtStart.seq], TRUE))
    /\ last' = Call("delete_otval", del_name, NoReturn)
    /\ UNCHANGED <<records, requests, jr_records, utc_now, classify_vars,
                   connections, session_vars>>

NextSessions ==
    \/ NextUI
    \/ \E n \in OtvalNames : OtherSaveOtval(n, NULL)
    \/ \E n \in OtvalNames : OtherDeleteOtval(n)

SpecSessions == Init /\ [][NextSessions]_vars

\* C19 as stated: when a trip record is inserted through the input workflow
\* its site name is the name of an entry that is in the catalog at that
\* moment, and is not the rail-mode sentinel.
C19_KnownSite ==
    [][(last'.op = "insert_record" /\ last'.ret.error = NULL) =>
          /\ HasName(otvals', records'[Len(records')].otval)
          /\ records'[Len(records')].otval # OTVAL_JR]_vars

C19_SiteStep ==
    /\ (selected_otval' # selected_otval
          /\ selected_otval' \notin {None, OTVAL_JR}) =>
          HasName(otvals', selected_otval')
    /\ (selected_otval \notin {None, OTVAL_JR}
          /\ HasName(otvals, selected_otval)
          /\ ~HasName(otvals', selected_otval)) =>
          last'.op = "delete_otval" /\ last'.otval = selected_otval
    /\ (last'.op = "insert_record" /\ last'.ret.error = NULL) =>
          /\ records'[Len(records')].otval = selected_otval
          /\ selected_otval' = selected_otval
          /\ selected_otval \notin {None, OTVAL_JR}

\* C19 (as it holds in the code): a trip record inserted through the input
\* workflow carries the site selected in its session, which is never the
\* rail-mode sentinel, was in the catalog when it was selected, and leaves
\* the catalog afterwards only by a delete_otval of that name.
C19_SelectedSite == [][C19_SiteStep]_vars

C19_Witness ==
    /\ last.op = "insert_record"
    /\ last.ret.error = NULL
    /\ LastRecord.otval = selected_otval
    /\ ~HasName(otvals, selected_otval)

====
